---- MODULE Spec2Model ----
(***************************************************************************)
(* onetimepass: HOTP (RFC 4226) and TOTP (RFC 6238) generation and         *)
(* validation, src/onetimepass/__init__.py.                                *)
(*                                                                         *)
(* Byte strings and text are sequences of byte values / code points.       *)
(* A Python value is a record [kind, n, s]: kind is the Python type (or    *)
(* the exception class when the call raised), n the numeric value of an    *)
(* int or bool, s the content of a bytes or str object.                    *)
(***************************************************************************)
EXTENDS Integers, Sequences, FiniteSets, TLC

VARIABLES PY3, pc, call, ret, hmacs, caller

vars == <<PY3, pc, call, ret, hmacs, caller>>

(* ------------------------------ bounds -------------------------------- *)

MaxCounter == 4
MaxLast == 3
MaxTrials == 4
MaxClock == 5
MaxWindow == 2
MaxCalls == 3

TokenLengths == {1, 6}
IntervalLengths == {2, 3}
DigestMethods == {"sha1", "sha256"}

(* --------------------------- Python values ---------------------------- *)

IntVal(v) == [kind |-> "int", n |-> v, s |-> <<>>]
BoolVal(b) == [kind |-> "bool", n |-> IF b THEN 1 ELSE 0, s |-> <<>>]
BytesVal(b) == [kind |-> "bytes", n |-> 0, s |-> b]
StrVal(t) == [kind |-> "str", n |-> 0, s |-> t]
NoneVal == [kind |-> "None", n |-> 0, s |-> <<>>]
Raise(exc) == [kind |-> exc, n |-> 0, s |-> <<>>]

Exceptions == {"TypeError", "binascii.Error", "struct.error", "UnicodeEncodeError"}
IsRaise(v) == v.kind \in Exceptions

PyFalse == BoolVal(FALSE)
PyTrue == BoolVal(TRUE)

\* Python's ==: bool is a subclass of int, so False == 0 and True == 1.
PyEq(a, b) ==
  IF a.kind \in {"int", "bool"} /\ b.kind \in {"int", "bool"} THEN a.n = b.n
  ELSE a = b

\* Python's truth value of a result.
Truthy(v) ==
  IF v.kind \in {"int", "bool"} THEN v.n # 0
  ELSE IF v.kind \in {"bytes", "str"} THEN Len(v.s) > 0
  ELSE FALSE

(* ------------------------- text and numbers --------------------------- *)

\* str(n) for an int: the decimal digits, with a leading '-' when negative.
RECURSIVE Digits(_)
Digits(v) == IF v < 10 THEN <<48 + v>> ELSE Append(Digits(v \div 10), 48 + (v % 10))

DecStr(v) == IF v < 0 THEN <<45>> \o Digits(0 - v) ELSE Digits(v)

\* int(token) for a string of ASCII digits.
RECURSIVE ParseDigits(_)
ParseDigits(b) ==
  IF Len(b) = 0 THEN 0
  ELSE 10 * ParseDigits(SubSeq(b, 1, Len(b) - 1)) + (b[Len(b)] - 48)

\* '{:0Ld}'.format(token): at least L characters, zero-filled on the left.
RECURSIVE ZeroPad(_, _)
ZeroPad(b, L) == IF Len(b) >= L THEN b ELSE ZeroPad(<<48>> \o b, L)

\* bytes.isdigit(): non-empty and ASCII digits only.
IsDigit(b) == Len(b) > 0 /\ \A i \in 1..Len(b) : b[i] \in 48..57

\* text.encode('utf-8') of code points below 65536.
RECURSIVE Utf8Encode(_)
Utf8Encode(t) ==
  IF Len(t) = 0 THEN <<>>
  ELSE LET c == Head(t)
           enc == IF c < 128 THEN <<c>>
                  ELSE IF c < 2048 THEN <<192 + (c \div 64), 128 + (c % 64)>>
                  ELSE <<224 + (c \div 4096), 128 + ((c \div 64) % 64), 128 + (c % 64)>>
       IN enc \o Utf8Encode(Tail(t))

\* six.b(str(token)): the text of the token as bytes. On Python 3 six.b
\* encodes with latin-1; on Python 2 str() of a unicode object encodes with
\* ascii. Either raises UnicodeEncodeError on a character out of its range.
six_b_str(token) ==
  IF token.kind = "int" THEN BytesVal(DecStr(token.n))
  ELSE IF \E i \in 1..Len(token.s) : token.s[i] > (IF PY3 THEN 255 ELSE 127)
       THEN Raise("UnicodeEncodeError")
       ELSE BytesVal(token.s)

\* int(token) of a token that passed the digit test.
PyInt(token) == IF token.kind = "int" THEN token.n ELSE ParseDigits(token.s)

(* --------------------------- _is_possible_token ----------------------- *)

\* Mutant: the length test is strict, len(token) < token_length.
is_possible_token_strict_length(token, token_length) ==
  LET b == IF token.kind = "bytes" THEN token ELSE six_b_str(token)
  IN IF IsRaise(b) THEN b
     ELSE BoolVal(IsDigit(b.s) /\ Len(b.s) < token_length)

is_possible_token(token, token_length) ==
  LET b == IF token.kind = "bytes" THEN token ELSE six_b_str(token)
  IN IF IsRaise(b) THEN b
     ELSE BoolVal(IsDigit(b.s) /\ Len(b.s) <= token_length)

(* ------------------------------ base32 -------------------------------- *)

IsB32Char(b) == b \in 65..90 \/ b \in 50..55
B32Val(b) == IF b \in 65..90 THEN b - 65 ELSE b - 24
Upper(b) == IF b \in 97..122 THEN b - 32 ELSE b

RECURSIVE RStripPad(_)
RStripPad(b) ==
  IF Len(b) > 0 /\ b[Len(b)] = 61 THEN RStripPad(SubSeq(b, 1, Len(b) - 1)) ELSE b

\* base64.b32decode(s, casefold): the 5-bit values of the characters are
\* concatenated and cut into bytes; the accumulator of the library is read
\* here bit by bit. The library raises binascii.Error on Python 3 and
\* TypeError on Python 2.
b32decode(b, casefold) ==
  LET err == Raise(IF PY3 THEN "binascii.Error" ELSE "TypeError")
      u == IF casefold THEN [i \in 1..Len(b) |-> Upper(b[i])] ELSE b
      body == RStripPad(u)
      padchars == Len(u) - Len(body)
      nbytes == (5 * Len(body)) \div 8
      Bit(m) == (B32Val(body[(m \div 5) + 1]) \div (2 ^ (4 - (m % 5)))) % 2
      Byte(k) == 128 * Bit(8 * k) + 64 * Bit(8 * k + 1) + 32 * Bit(8 * k + 2)
                 + 16 * Bit(8 * k + 3) + 8 * Bit(8 * k + 4) + 4 * Bit(8 * k + 5)
                 + 2 * Bit(8 * k + 6) + Bit(8 * k + 7)
  IN IF Len(b) % 8 # 0 THEN err
     ELSE IF \E i \in 1..Len(body) : ~IsB32Char(body[i]) THEN err
     ELSE IF padchars \notin {0, 1, 3, 4, 6} THEN err
     ELSE BytesVal([k \in 1..nbytes |-> Byte(k - 1)])

(* ------------------------------- HMAC --------------------------------- *)

\* hmac.new(key, msg, digest_method).digest() for the keys and the counters
\* of the model: the digests of the library, as byte values, indexed by
\* digest method, key and counter (row c + 1 is the digest of counter c).
HmacTable ==
  [ sha1 |->
    [ k_abcdefghij |-> <<
        <<251,65,9,103,61,165,3,74,218,107,164,99,175,192,35,38,61,78,17,59>>,
        <<241,164,32,33,29,52,218,88,191,201,64,151,53,253,118,168,178,185,117,150>>,
        <<244,192,182,122,188,231,173,1,106,163,119,126,157,204,121,65,253,123,234,36>>,
        <<155,87,145,115,23,50,175,66,16,0,88,165,221,75,139,156,190,12,74,34>>,
        <<124,119,59,206,199,190,233,88,117,245,42,86,253,241,185,205,157,109,151,3>>,
        <<122,136,233,240,134,65,109,91,101,172,239,98,20,54,167,18,76,232,165,190>>,
        <<181,151,22,126,59,146,181,210,117,209,244,173,99,81,100,82,227,220,29,231>>,
        <<111,100,137,18,130,189,116,238,137,112,182,110,100,24,194,172,32,95,29,255>>,
        <<187,45,253,158,129,7,19,57,188,226,228,77,50,138,43,29,56,152,239,164>>,
        <<60,217,222,194,178,119,3,13,67,75,46,8,111,177,188,209,102,0,74,221>>,
        <<67,250,37,75,68,52,35,27,154,115,180,29,42,103,2,240,127,217,238,143>>,
        <<14,130,84,116,14,60,250,213,161,4,122,131,57,254,139,220,96,25,197,200>>,
        <<206,3,198,144,35,136,191,165,23,46,244,35,235,223,31,143,210,148,23,80>>
      >>
    , k_a |-> <<
        <<124,68,32,80,61,48,62,170,78,139,23,150,84,246,109,166,24,65,248,165>>,
        <<77,122,200,75,132,44,93,164,177,243,135,168,228,63,35,255,116,94,19,144>>,
        <<2,44,164,222,192,227,119,188,50,7,107,74,161,106,80,105,63,105,166,125>>,
        <<247,241,74,101,189,211,195,237,245,234,26,51,218,155,240,52,105,249,189,23>>,
        <<56,153,105,161,112,139,191,225,49,251,130,0,4,77,176,224,66,129,62,153>>,
        <<254,203,118,123,139,103,251,253,100,19,20,65,163,89,128,114,231,167,238,45>>,
        <<131,27,99,121,205,5,96,232,182,71,114,69,158,15,123,197,202,167,217,16>>,
        <<210,152,134,171,50,225,133,60,107,211,230,163,200,205,89,165,200,64,219,131>>,
        <<28,158,47,97,214,133,110,235,242,180,40,142,111,205,198,243,201,129,129,187>>,
        <<59,118,235,108,176,242,66,119,17,179,57,148,29,247,222,142,178,201,62,123>>,
        <<40,171,205,42,176,254,200,108,176,15,48,5,125,175,222,82,135,186,135,251>>,
        <<90,94,95,198,42,170,99,183,122,250,135,223,122,205,14,164,248,65,10,11>>,
        <<190,22,180,74,49,188,169,17,222,8,9,108,9,155,144,243,80,18,110,100>>
      >>
    , k_empty |-> <<
        <<218,182,154,217,142,40,118,79,151,126,226,72,126,79,63,104,115,178,162,151>>,
        <<238,176,11,11,204,134,70,121,255,45,141,211,11,236,73,92,181,242,238,158>>,
        <<177,111,139,209,46,204,48,149,241,100,19,190,113,82,213,229,8,196,23,206>>,
        <<224,43,194,154,77,245,0,208,21,94,73,177,175,73,191,103,22,61,35,169>>,
        <<153,97,98,118,164,49,148,153,93,15,2,90,240,179,254,143,218,237,146,141>>,
        <<62,25,144,80,76,45,21,112,88,0,160,18,147,155,134,66,116,176,10,232>>,
        <<170,38,132,88,24,53,231,140,177,147,117,128,175,229,141,24,22,213,86,7>>,
        <<136,74,126,20,108,54,40,70,23,8,148,145,0,19,7,88,115,204,127,130>>,
        <<230,26,22,214,159,77,75,4,239,255,76,232,24,187,189,3,163,40,193,112>>,
        <<28,104,12,10,74,137,69,179,66,157,189,22,246,121,206,194,249,255,63,119>>,
        <<70,19,54,166,186,217,161,242,135,15,107,214,30,199,133,29,204,208,12,84>>,
        <<15,79,221,136,255,116,114,177,224,214,53,145,127,118,204,173,99,148,212,167>>,
        <<5,139,76,98,202,144,15,247,162,88,48,180,205,24,11,44,113,212,54,63>>
      >>
    ]
  , sha256 |->
    [ k_abcdefghij |-> <<
        <<135,132,211,148,3,216,160,82,167,102,55,70,246,181,61,122,35,30,156,206,17,1,192,160,60,146,1,175,170,181,70,67>>,
        <<189,43,92,152,42,22,28,221,117,209,20,146,48,179,117,176,32,8,53,221,35,199,98,223,251,226,73,248,41,166,144,52>>,
        <<185,253,233,251,140,206,18,104,211,124,147,107,162,171,18,177,12,61,235,102,249,56,249,68,198,156,124,21,181,185,30,214>>,
        <<115,2,53,92,231,162,142,81,199,226,120,196,200,85,147,162,248,136,200,243,177,20,4,128,129,232,196,136,190,4,63,202>>,
        <<129,208,178,171,255,42,106,140,109,199,236,223,40,117,6,23,47,123,214,122,217,143,32,197,208,7,215,0,232,145,46,146>>,
        <<66,30,177,134,181,177,67,7,126,174,203,28,132,9,94,29,180,234,114,253,232,219,242,242,240,197,82,153,157,112,57,135>>,
        <<206,117,131,46,222,55,131,211,30,156,183,1,128,234,32,82,200,84,253,72,176,200,64,24,128,106,15,248,168,236,153,176>>,
        <<142,147,115,138,6,138,203,133,70,79,129,202,201,175,155,203,156,68,1,175,144,169,240,64,13,57,112,205,107,200,208,211>>,
        <<63,27,22,112,36,199,92,171,62,201,139,2,185,110,255,152,153,30,150,86,144,133,173,188,81,163,254,93,165,229,49,138>>,
        <<98,218,33,138,210,254,238,58,16,158,125,224,165,45,39,116,91,73,161,73,157,247,174,109,110,168,166,5,126,228,188,127>>,
        <<28,56,89,102,158,111,50,71,160,200,51,212,86,183,172,190,242,243,22,230,119,111,224,249,147,122,108,81,104,46,155,171>>,
        <<92,171,154,108,122,188,24,26,212,24,5,193,15,219,84,102,213,129,178,106,78,230,197,116,152,42,20,138,78,185,64,48>>,
        <<226,10,23,243,150,102,240,40,235,8,36,112,21,174,103,229,250,181,187,198,144,227,213,212,155,177,40,171,72,175,199,215>>
      >>
    , k_a |-> <<
        <<230,92,115,91,85,96,187,136,0,219,2,215,47,207,191,168,243,148,136,35,33,246,42,84,185,202,222,104,121,168,73,250>>,
        <<183,39,196,84,179,190,74,203,120,88,124,106,3,46,166,219,26,73,243,7,60,188,182,235,227,128,50,203,114,6,49,153>>,
        <<132,128,97,18,42,242,25,215,160,163,213,181,93,158,75,118,164,230,127,110,157,149,61,165,31,240,85,227,154,235,222,12>>,
        <<223,44,66,232,78,116,38,196,226,42,153,197,15,166,145,117,158,208,111,237,31,113,107,133,138,22,1,143,167,243,180,60>>,
        <<238,105,180,251,58,121,138,0,205,121,209,34,106,229,12,73,179,201,187,217,168,75,151,183,185,119,177,70,77,47,152,247>>,
        <<54,41,81,186,10,192,152,178,140,140,64,110,234,14,123,24,136,75,152,234,53,82,5,54,204,217,135,231,228,138,204,180>>,
        <<105,91,60,46,140,159,193,229,229,221,33,138,130,122,131,243,254,225,10,130,205,216,68,159,192,116,197,198,169,110,79,118>>,
        <<162,156,32,16,35,31,232,29,10,159,125,133,80,183,162,120,159,97,17,167,217,79,79,161,228,37,143,79,28,139,149,80>>,
        <<19,119,141,119,26,182,110,234,235,235,154,246,45,199,117,79,44,178,80,194,179,98,201,116,142,56,248,138,89,250,81,95>>,
        <<38,139,192,105,91,85,181,117,175,12,132,86,140,112,1,12,14,41,113,118,2,28,66,176,91,114,172,165,166,209,254,105>>,
        <<189,249,81,85,4,173,218,37,89,236,229,51,116,202,157,135,119,186,222,38,134,9,19,223,58,145,159,250,123,154,205,71>>,
        <<222,184,107,107,104,211,243,0,133,207,107,219,74,194,253,253,158,207,127,137,12,75,250,53,134,114,123,237,127,91,33,227>>,
        <<127,142,135,162,73,207,172,83,75,99,39,23,24,27,169,65,189,231,167,224,99,142,90,97,113,84,229,125,252,241,161,126>>
      >>
    , k_empty |-> <<
        <<243,117,24,10,186,146,136,132,1,241,145,155,228,168,113,90,98,118,59,101,193,193,14,29,8,88,232,29,77,111,159,210>>,
        <<164,161,28,229,251,232,249,107,243,2,128,53,40,108,44,146,116,205,66,89,203,194,36,227,122,115,217,113,146,57,3,211>>,
        <<201,253,143,92,212,233,71,187,9,1,253,244,114,99,9,179,187,206,124,138,63,59,32,236,74,15,56,87,205,144,140,49>>,
        <<233,178,126,181,27,174,194,167,157,18,89,220,179,7,127,35,186,107,138,156,251,34,35,102,60,225,87,21,167,191,2,137>>,
        <<132,209,201,120,48,39,181,1,206,107,36,227,21,29,251,78,171,33,97,86,30,30,93,43,207,55,190,47,178,211,255,99>>,
        <<160,138,150,66,10,216,165,104,58,157,150,187,67,128,102,6,60,9,248,101,163,156,198,107,244,142,112,107,75,224,171,212>>,
        <<228,173,17,26,40,116,113,219,127,10,169,175,202,149,170,220,205,106,244,19,234,76,232,167,44,40,53,27,220,169,254,236>>,
        <<253,108,32,135,222,68,65,3,15,207,136,149,255,186,156,30,168,47,112,165,142,9,199,128,61,252,34,140,205,237,22,96>>,
        <<144,54,154,228,175,75,194,32,188,19,168,26,165,181,251,187,43,218,16,184,224,99,26,186,114,89,68,174,171,39,29,186>>,
        <<153,23,53,158,147,52,152,179,112,66,172,20,110,217,42,27,94,194,11,35,45,0,171,147,133,169,7,58,224,2,64,78>>,
        <<188,81,52,110,212,133,22,233,41,178,20,117,55,5,156,44,83,132,253,110,88,176,238,231,109,47,172,172,79,159,97,4>>,
        <<143,63,10,110,68,66,219,144,244,119,174,190,184,15,165,22,123,254,144,231,103,153,170,134,47,248,244,17,220,225,13,151>>,
        <<107,137,93,130,168,58,166,85,75,26,237,219,111,136,126,105,154,237,78,59,124,114,135,132,22,68,163,11,236,3,157,14>>
      >>
    ]
  ]
KeyName(key) ==
  CASE key = <<97, 98, 99, 100, 101, 102, 103, 104, 105, 106>> -> "k_abcdefghij"
    [] key = <<97>> -> "k_a"
    [] key = <<>> -> "k_empty"

\* struct.pack('>Q', n): 8 bytes, big-endian; struct.error outside 0..2^64-1
\* (the counters of the model stay below 2^31, so only the lower limit is
\* reachable).
pack_Q(v) ==
  IF v < 0 THEN Raise("struct.error")
  ELSE BytesVal(<<0, 0, 0, 0, (v \div 16777216) % 256, (v \div 65536) % 256,
                  (v \div 256) % 256, v % 256>>)

unpack_Q(m) == 16777216 * m[5] + 65536 * m[6] + 256 * m[7] + m[8]

hmac_digest(key, msg, digest_method) ==
  HmacTable[digest_method][KeyName(key)][unpack_Q(msg) + 1]

(* ------------------------------ get_hotp ------------------------------ *)

\* Each operation yields [ret, hmacs]: the value returned (or the exception
\* raised) and the counters whose HMAC was computed, in order.
Outcome(r, h) == [ret |-> r, hmacs |-> h]

\* struct.unpack('>I', d[o:o+4])[0] & 0x7fffffff: the mask clears the top
\* bit of the first byte.
token_base_at(d, o) ==
  (d[o + 1] % 128) * 16777216 + d[o + 2] * 65536 + d[o + 3] * 256 + d[o + 4]

\* Lines 107-115: text is encoded, spaces are removed, the rest is decoded;
\* a TypeError of the decoder is raised again as TypeError('Incorrect secret'),
\* any other exception passes through.
decode_secret(secret, casefold) ==
  LET raw == IF secret.kind = "str" THEN Utf8Encode(secret.s) ELSE secret.s
      stripped == SelectSeq(raw, LAMBDA b : b # 32)
      key == b32decode(stripped, casefold)
  IN IF key.kind = "TypeError" THEN Raise("TypeError") ELSE key

\* Mutant: a secret that does not decode is replaced by the empty key.
get_hotp_silent_key(secret, intervals_no, as_string, casefold, digest_method, token_length) ==
  LET decoded == decode_secret(secret, casefold)
      key == IF IsRaise(decoded) THEN BytesVal(<<>>) ELSE decoded
      msg == pack_Q(intervals_no)
      d == hmac_digest(key.s, msg.s, digest_method)
      o == d[20] % 16
      token == token_base_at(d, o) % (10 ^ token_length)
  IN IF IsRaise(msg) THEN Outcome(msg, <<>>)
     ELSE IF as_string
          THEN Outcome(BytesVal(ZeroPad(DecStr(token), token_length)), <<intervals_no>>)
          ELSE Outcome(IntVal(token), <<intervals_no>>)

\* Mutant: the string form is str(token), without the zero fill.
get_hotp_unpadded(secret, intervals_no, as_string, casefold, digest_method, token_length) ==
  LET key == decode_secret(secret, casefold)
      msg == pack_Q(intervals_no)
      d == hmac_digest(key.s, msg.s, digest_method)
      o == d[20] % 16
      token == token_base_at(d, o) % (10 ^ token_length)
  IN IF IsRaise(key) THEN Outcome(key, <<>>)
     ELSE IF IsRaise(msg) THEN Outcome(msg, <<>>)
     ELSE IF as_string THEN Outcome(BytesVal(DecStr(token)), <<intervals_no>>)
          ELSE Outcome(IntVal(token), <<intervals_no>>)

get_hotp(secret, intervals_no, as_string, casefold, digest_method, token_length) ==
  LET key == decode_secret(secret, casefold)
      msg == pack_Q(intervals_no)
      d == hmac_digest(key.s, msg.s, digest_method)
      o == d[20] % 16
      token == token_base_at(d, o) % (10 ^ token_length)
  IN IF IsRaise(key) THEN Outcome(key, <<>>)
     ELSE IF IsRaise(msg) THEN Outcome(msg, <<>>)
     ELSE IF as_string
          THEN Outcome(BytesVal(ZeroPad(DecStr(token), token_length)), <<intervals_no>>)
          ELSE Outcome(IntVal(token), <<intervals_no>>)

(* ------------------------------ get_totp ------------------------------ *)

\* clock is None or an int; now is what time.time() reads when clock is None.
\* Mutant: the interval length of the call is ignored for the default, 30.
get_totp_default_interval(secret, as_string, digest_method, token_length, interval_length, clock, now) ==
  LET c == IF clock.kind = "None" THEN now ELSE clock.n
      interv_no == c \div 30
  IN get_hotp(secret, interv_no, as_string, TRUE, digest_method, token_length)

get_totp(secret, as_string, digest_method, token_length, interval_length, clock, now) ==
  LET c == IF clock.kind = "None" THEN now ELSE clock.n
      interv_no == c \div interval_length
  IN get_hotp(secret, interv_no, as_string, TRUE, digest_method, token_length)

(* ----------------------------- valid_hotp ----------------------------- *)

\* for i in xrange(i, stop): the rest of the scan, log being the counters
\* whose HMAC the scan has computed so far.
\* Mutant: the scan notes the first match and goes on to the end of the range.
RECURSIVE valid_hotp_scan_to_end(_, _, _, _, _, _, _)
valid_hotp_scan_to_end(i, stop, token, secret, digest_method, token_length, log) ==
  IF i >= stop THEN Outcome(PyFalse, log)
  ELSE LET token_candidate == get_hotp(secret, i, FALSE, TRUE, digest_method, token_length)
           seen == log \o token_candidate.hmacs
           rest == valid_hotp_scan_to_end(i + 1, stop, token, secret, digest_method,
                                          token_length, seen)
       IN IF IsRaise(token_candidate.ret) THEN Outcome(token_candidate.ret, seen)
          ELSE IF token_candidate.ret.n = PyInt(token) THEN Outcome(IntVal(i), rest.hmacs)
          ELSE rest

RECURSIVE valid_hotp_scan(_, _, _, _, _, _, _)
valid_hotp_scan(i, stop, token, secret, digest_method, token_length, log) ==
  IF i >= stop THEN Outcome(PyFalse, log)
  ELSE LET token_candidate == get_hotp(secret, i, FALSE, TRUE, digest_method, token_length)
           seen == log \o token_candidate.hmacs
       IN IF IsRaise(token_candidate.ret) THEN Outcome(token_candidate.ret, seen)
          ELSE IF token_candidate.ret.n = PyInt(token) THEN Outcome(IntVal(i), seen)
          ELSE valid_hotp_scan(i + 1, stop, token, secret, digest_method, token_length, seen)

\* Mutant: the scan ends one counter early, xrange(last + 1, last + trials).
valid_hotp_short_range(token, secret, last, trials, digest_method, token_length) ==
  LET possible == is_possible_token(token, token_length)
  IN IF IsRaise(possible) THEN Outcome(possible, <<>>)
     ELSE IF ~Truthy(possible) THEN Outcome(PyFalse, <<>>)
     ELSE valid_hotp_scan(last + 1, last + trials, token, secret,
                          digest_method, token_length, <<>>)

\* Mutant: last is ignored, the scan starts at counter 0,
\* xrange(0, last + trials + 1).
valid_hotp_ignores_last(token, secret, last, trials, digest_method, token_length) ==
  LET possible == is_possible_token(token, token_length)
  IN IF IsRaise(possible) THEN Outcome(possible, <<>>)
     ELSE IF ~Truthy(possible) THEN Outcome(PyFalse, <<>>)
     ELSE valid_hotp_scan(0, last + trials + 1, token, secret,
                          digest_method, token_length, <<>>)

\* Mutant: the scan starts at last itself, xrange(last, last + trials + 1).
valid_hotp_from_last(token, secret, last, trials, digest_method, token_length) ==
  LET possible == is_possible_token(token, token_length)
  IN IF IsRaise(possible) THEN Outcome(possible, <<>>)
     ELSE IF ~Truthy(possible) THEN Outcome(PyFalse, <<>>)
     ELSE valid_hotp_scan(last, last + trials + 1, token, secret,
                          digest_method, token_length, <<>>)

valid_hotp(token, secret, last, trials, digest_method, token_length) ==
  LET possible == is_possible_token(token, token_length)
  IN IF IsRaise(possible) THEN Outcome(possible, <<>>)
     ELSE IF ~Truthy(possible) THEN Outcome(PyFalse, <<>>)
     ELSE valid_hotp_scan(last + 1, last + trials + 1, token, secret,
                          digest_method, token_length, <<>>)

(* ----------------------------- valid_totp ----------------------------- *)

\* for w in range(w, stop): the rest of the scan over the clock offsets.
RECURSIVE valid_totp_scan(_, _, _, _, _, _, _, _, _)
valid_totp_scan(w, stop, token, secret, digest_method, token_length, interval_length, c, log) ==
  IF w >= stop THEN Outcome(PyFalse, log)
  ELSE LET totp == get_totp(secret, FALSE, digest_method, token_length,
                            interval_length, IntVal(c + (w * interval_length)), c)
           seen == log \o totp.hmacs
       IN IF IsRaise(totp.ret) THEN Outcome(totp.ret, seen)
          ELSE IF PyInt(token) = totp.ret.n THEN Outcome(PyTrue, seen)
          ELSE valid_totp_scan(w + 1, stop, token, secret, digest_method,
                               token_length, interval_length, c, seen)

valid_totp(token, secret, digest_method, token_length, interval_length, clock, now, window) ==
  LET possible == is_possible_token(token, token_length)
      c == IF clock.kind = "None" THEN now ELSE clock.n
  IN IF IsRaise(possible) THEN Outcome(possible, <<>>)
     ELSE IF ~Truthy(possible) THEN Outcome(PyFalse, <<>>)
     ELSE valid_totp_scan(0 - window, window + 1, token, secret, digest_method,
                          token_length, interval_length, c, <<>>)

(* ------------------------------ the inputs ---------------------------- *)

B_MFRGGZDFMZTWQ2LK == <<77, 70, 82, 71, 71, 90, 68, 70, 77, 90, 84, 87, 81, 50, 76, 75>>

\* Secrets that decode to a non-empty key:
\*   b'MFRGGZDFMZTWQ2LK', u'mfrg gzdf mztw q2lk', b'ME======'
NonEmptySecrets ==
  { BytesVal(B_MFRGGZDFMZTWQ2LK),
    StrVal(<<109, 102, 114, 103, 32, 103, 122, 100, 102, 32, 109, 122, 116, 119, 32,
             113, 50, 108, 107>>),
    BytesVal(<<77, 69, 61, 61, 61, 61, 61, 61>>) }

\* Secrets that decode to the empty key: b'' and u'  '.
EmptySecrets == { BytesVal(<<>>), StrVal(<<32, 32>>) }

\* Not base32: b'MFRGGZD' (length) and b'MFRGGZD1' (alphabet).
BadSecrets ==
  { BytesVal(<<77, 70, 82, 71, 71, 90, 68>>),
    BytesVal(<<77, 70, 82, 71, 71, 90, 68, 49>>) }

Secrets == NonEmptySecrets \cup EmptySecrets \cup BadSecrets

\* Candidates that do not depend on the secret:
\*   865438, b'abcdef', b'', b'0000005', u'5', u'12€'.
FixedTokens ==
  { IntVal(865438), BytesVal(<<97, 98, 99, 100, 101, 102>>), BytesVal(<<>>),
    BytesVal(<<48, 48, 48, 48, 48, 48, 53>>), StrVal(<<53>>),
    StrVal(<<49, 50, 8364>>) }

\* The codes get_hotp gives for the secret, as int and as bytes.
GeneratedTokens(secret, digest_method, token_length) ==
  { r.ret : r \in { get_hotp(secret, c, a, TRUE, digest_method, token_length) :
                      c \in 0..MaxCounter, a \in BOOLEAN } } \ { v \in
      { Raise(e) : e \in Exceptions } : TRUE }

Tokens(secret, digest_method, token_length) ==
  FixedTokens \cup GeneratedTokens(secret, digest_method, token_length)

Clocks == { NoneVal } \cup { IntVal(c) : c \in 0..MaxClock }

(* ------------------------------ the calls ----------------------------- *)

NoCall ==
  [fn |-> "none", secret |-> NoneVal, token |-> NoneVal, intervals_no |-> 0,
   as_string |-> FALSE, casefold |-> TRUE, digest_method |-> "sha1",
   token_length |-> 6, interval_length |-> 30, clock |-> NoneVal, now |-> 0,
   last |-> 1, trials |-> 0, window |-> 0]

\* What a caller of valid_hotp keeps for one secret: the last used counter,
\* the counters accepted so far and the number of validations made. The
\* library itself keeps none of it.
NoCaller ==
  [secret |-> NoneVal, digest_method |-> "sha1", token_length |-> 6, last |-> 1,
   accepted |-> <<>>, calls |-> 0]

Init ==
  /\ PY3 \in BOOLEAN
  /\ pc = "idle"
  /\ call = NoCall
  /\ ret = NoneVal
  /\ hmacs = <<>>
  /\ caller = NoCaller

CallGetHotp ==
  /\ pc = "idle"
  /\ \E secret \in Secrets, intervals_no \in 0..MaxCounter, as_string \in BOOLEAN,
        casefold \in BOOLEAN, digest_method \in DigestMethods,
        token_length \in TokenLengths :
       LET r == get_hotp(secret, intervals_no, as_string, casefold,
                         digest_method, token_length)
       IN /\ call' = [NoCall EXCEPT !.fn = "get_hotp", !.secret = secret,
                        !.intervals_no = intervals_no, !.as_string = as_string,
                        !.casefold = casefold, !.digest_method = digest_method,
                        !.token_length = token_length]
          /\ ret' = r.ret
          /\ hmacs' = r.hmacs
  /\ pc' = "done"
  /\ UNCHANGED <<PY3, caller>>

\* now is read only when clock is None.
CallGetTotp ==
  /\ pc = "idle"
  /\ \E secret \in Secrets, as_string \in BOOLEAN, digest_method \in DigestMethods,
        token_length \in TokenLengths, interval_length \in IntervalLengths,
        clock \in Clocks, now \in 0..MaxClock :
       LET r == get_totp(secret, as_string, digest_method, token_length,
                         interval_length, clock, now)
       IN /\ clock.kind = "None" \/ now = 0
          /\ call' = [NoCall EXCEPT !.fn = "get_totp", !.secret = secret,
                        !.as_string = as_string, !.digest_method = digest_method,
                        !.token_length = token_length,
                        !.interval_length = interval_length, !.clock = clock,
                        !.now = now]
          /\ ret' = r.ret
          /\ hmacs' = r.hmacs
  /\ pc' = "done"
  /\ UNCHANGED <<PY3, caller>>

CallValidHotp ==
  /\ pc = "idle"
  /\ \E secret \in Secrets, digest_method \in DigestMethods,
        token_length \in TokenLengths :
       \E token \in Tokens(secret, digest_method, token_length),
          last \in (0 - 1)..MaxLast, trials \in 0..MaxTrials :
         LET r == valid_hotp(token, secret, last, trials, digest_method, token_length)
         IN /\ call' = [NoCall EXCEPT !.fn = "valid_hotp", !.token = token,
                          !.secret = secret, !.last = last, !.trials = trials,
                          !.digest_method = digest_method,
                          !.token_length = token_length]
            /\ ret' = r.ret
            /\ hmacs' = r.hmacs
  /\ pc' = "done"
  /\ UNCHANGED <<PY3, caller>>

CallValidTotp ==
  /\ pc = "idle"
  /\ \E secret \in Secrets, digest_method \in DigestMethods,
        token_length \in TokenLengths :
       \E token \in Tokens(secret, digest_method, token_length),
          interval_length \in IntervalLengths, clock \in Clocks,
          now \in 0..MaxClock, window \in 0..MaxWindow :
         LET r == valid_totp(token, secret, digest_method, token_length,
                             interval_length, clock, now, window)
         IN /\ clock.kind = "None" \/ now = 0
            /\ call' = [NoCall EXCEPT !.fn = "valid_totp", !.token = token,
                          !.secret = secret, !.digest_method = digest_method,
                          !.token_length = token_length,
                          !.interval_length = interval_length, !.clock = clock,
                          !.now = now, !.window = window]
            /\ ret' = r.ret
            /\ hmacs' = r.hmacs
  /\ pc' = "done"
  /\ UNCHANGED <<PY3, caller>>

\* The caller takes the result; the library keeps nothing between calls.
Return ==
  /\ pc = "done"
  /\ pc' = "idle"
  /\ call' = NoCall
  /\ ret' = NoneVal
  /\ hmacs' = <<>>
  /\ UNCHANGED <<PY3, caller>>

Next == CallGetHotp \/ CallGetTotp \/ CallValidHotp \/ CallValidTotp \/ Return

Spec == Init /\ [][Next]_vars

(* ------------------ a caller that keeps the last counter --------------- *)

\* One secret, digest method and token length per caller; last starts at
\* -1: no counter was used yet.
SessionInit ==
  /\ PY3 \in BOOLEAN
  /\ pc = "idle"
  /\ call = NoCall
  /\ ret = NoneVal
  /\ hmacs = <<>>
  /\ caller \in { [NoCaller EXCEPT !.secret = s, !.digest_method = d,
                                   !.token_length = l, !.last = 0 - 1] :
                    s \in NonEmptySecrets, d \in DigestMethods,
                    l \in TokenLengths }

\* valid_hotp(token, secret, last=<the caller's last>, trials=...).
SessionValidate ==
  /\ pc = "idle"
  /\ caller.calls < MaxCalls
  /\ \E token \in Tokens(caller.secret, caller.digest_method, caller.token_length),
        trials \in 1..MaxTrials :
       LET r == valid_hotp(token, caller.secret, caller.last, trials,
                           caller.digest_method, caller.token_length)
       IN /\ caller.last + trials <= MaxCounter + MaxTrials
          /\ call' = [NoCall EXCEPT !.fn = "valid_hotp", !.token = token,
                        !.secret = caller.secret, !.last = caller.last,
                        !.trials = trials,
                        !.digest_method = caller.digest_method,
                        !.token_length = caller.token_length]
          /\ ret' = r.ret
          /\ hmacs' = r.hmacs
  /\ pc' = "done"
  /\ caller' = [caller EXCEPT !.calls = @ + 1]
  /\ UNCHANGED PY3

\* After a successful validation the returned counter becomes the new last;
\* after not-found (or an exception) last stays as it is.
SessionPersist ==
  /\ pc = "done"
  /\ pc' = "idle"
  /\ caller' = IF ret.kind = "int"
               THEN [caller EXCEPT !.last = ret.n, !.accepted = Append(@, ret.n)]
               ELSE caller
  /\ call' = NoCall
  /\ ret' = NoneVal
  /\ hmacs' = <<>>
  /\ UNCHANGED PY3

SessionNext == SessionValidate \/ SessionPersist

SessionSpec == SessionInit /\ [][SessionNext]_vars

(* ------------------------- terms of the claims ------------------------ *)

Done(fn) == pc = "done" /\ call.fn = fn

\* The text of a candidate: its characters, or the decimal form of an int.
TokenText(token) == IF token.kind = "int" THEN DecStr(token.n) ELSE token.s

\* A well-formed candidate: decimal digits only (at least one), no longer
\* than the token length.
WellFormed(token, token_length) ==
  /\ Len(TokenText(token)) \in 1..token_length
  /\ \A i \in 1..Len(TokenText(token)) : TokenText(token)[i] \in 48..57

\* A malformed candidate: some character is no digit, or it is too long.
Malformed(token, token_length) ==
  \/ Len(TokenText(token)) > token_length
  \/ \E i \in 1..Len(TokenText(token)) : TokenText(token)[i] \notin 48..57

TokenValue(token) == ParseDigits(TokenText(token))

\* A valid secret: base32 after its spaces are removed, of a non-empty key.
ValidSecret(secret) ==
  /\ ~IsRaise(decode_secret(secret, TRUE))
  /\ Len(decode_secret(secret, TRUE).s) > 0

\* The secret is not base32.
InvalidSecret(secret) == IsRaise(decode_secret(secret, TRUE))

\* The secret decodes, to the empty key.
EmptyKeySecret(secret) ==
  /\ ~IsRaise(decode_secret(secret, TRUE))
  /\ Len(decode_secret(secret, TRUE).s) = 0

IsDecodeError(v) == v.kind \in {"TypeError", "binascii.Error"}

\* get_hotp(secret, i) with the digest method and token length of the call.
CodeAt(i) ==
  get_hotp(call.secret, i, FALSE, TRUE, call.digest_method, call.token_length).ret

\* The counters of last+1 .. last+trials whose code is the candidate's value.
Matching ==
  { i \in (call.last + 1)..(call.last + call.trials) :
      CodeAt(i) = IntVal(TokenValue(call.token)) }

SetMin(S) == CHOOSE m \in S : \A x \in S : m <= x

(* -------------------------------- C1 ---------------------------------- *)

\* C1: for a well-formed candidate and a valid secret, valid_hotp returns the
\* smallest counter of last+1 .. last+trials whose code equals the
\* candidate's value, and False when no counter of that range matches.
C1_SmallestMatchingCounter ==
  (Done("valid_hotp") /\ ValidSecret(call.secret)
     /\ WellFormed(call.token, call.token_length))
  => IF Matching = {} THEN ret = PyFalse ELSE ret = IntVal(SetMin(Matching))

\* Two counters of the range match and an earlier one does not: the smaller
\* match is returned.
C1_Witness ==
  /\ Done("valid_hotp") /\ ValidSecret(call.secret)
  /\ WellFormed(call.token, call.token_length)
  /\ Cardinality(Matching) >= 2
  /\ ret = IntVal(SetMin(Matching))
  /\ ret.n > call.last + 1

(* -------------------------------- C2 ---------------------------------- *)

\* C2: a code that get_hotp gives for a valid secret at a counter validates
\* at exactly that counter when last = counter - 1 and trials >= 1, with the
\* same digest method and token length on both calls.
C2_RoundTrip ==
  (Done("valid_hotp") /\ ValidSecret(call.secret) /\ call.trials >= 1
     /\ \E a \in BOOLEAN :
          call.token = get_hotp(call.secret, call.last + 1, a, TRUE,
                                call.digest_method, call.token_length).ret)
  => ret = IntVal(call.last + 1)

\* The code of counter last + 1, given as a zero-padded string, comes back
\* as that counter.
C2_Witness ==
  /\ Done("valid_hotp") /\ ValidSecret(call.secret) /\ call.trials >= 1
  /\ call.token = get_hotp(call.secret, call.last + 1, TRUE, TRUE,
                           call.digest_method, call.token_length).ret
  /\ call.token_length = 6
  /\ call.token.s[1] = 48
  /\ ret = IntVal(call.last + 1)

(* -------------------------------- C3 ---------------------------------- *)

\* The candidate is the code of counter last or of an earlier counter.
GeneratedAtOrBeforeLast ==
  \E c \in 0..call.last, a \in BOOLEAN :
    call.token = get_hotp(call.secret, c, a, TRUE, call.digest_method,
                          call.token_length).ret

\* C3 as stated: valid_hotp(code, secret, last=c, trials=N) returns False for
\* a code generated at counter c or at any earlier counter.
C3_ReplayAlwaysNotFound ==
  (Done("valid_hotp") /\ ValidSecret(call.secret) /\ GeneratedAtOrBeforeLast)
  => ret = PyFalse

\* C3 as amended: for a code generated at counter c or earlier, valid_hotp
\* with last=c never returns c or an earlier counter; it returns False unless
\* a counter of c+1 .. c+N yields the same code, and then the smallest such.
C3_ReplayNeverAcceptedAtPastCounter ==
  (Done("valid_hotp") /\ ValidSecret(call.secret) /\ GeneratedAtOrBeforeLast)
  => IF Matching = {} THEN ret = PyFalse
     ELSE ret.kind = "int" /\ ret.n > call.last /\ ret.n = SetMin(Matching)

\* The code of counter last itself is presented again and is refused after
\* the whole range was scanned.
C3_Witness ==
  /\ Done("valid_hotp") /\ ValidSecret(call.secret)
  /\ call.last >= 0 /\ call.trials >= 2
  /\ call.token = CodeAt(call.last)
  /\ ret = PyFalse
  /\ Len(hmacs) = call.trials

(* -------------------------------- C4 ---------------------------------- *)

\* floor(c / L), as the k with k*L <= c < (k+1)*L.
FloorDiv(c, L) == CHOOSE k \in 0..c : k * L <= c /\ c < (k + 1) * L

\* C4: for a valid secret, a clock >= 0 and an interval length L >= 1,
\* get_totp(secret, clock, L) is get_hotp(secret, floor(clock / L)) with the
\* same as_string, digest method and token length, as int and as string.
C4_TotpIsHotpOfInterval ==
  (Done("get_totp") /\ ValidSecret(call.secret) /\ call.clock.kind = "int")
  => ret = get_hotp(call.secret, FloorDiv(call.clock.n, call.interval_length),
                    call.as_string, TRUE, call.digest_method,
                    call.token_length).ret

\* A clock inside an interval other than the first, in string form.
C4_Witness ==
  /\ Done("get_totp") /\ ValidSecret(call.secret) /\ call.clock.kind = "int"
  /\ call.clock.n % call.interval_length # 0
  /\ FloorDiv(call.clock.n, call.interval_length) >= 1
  /\ call.as_string
  /\ ret.kind = "bytes"

(* -------------------------------- C5 ---------------------------------- *)

\* get_totp(secret, clock = c) with the parameters of the call, as int.
TotpAt(c) ==
  get_totp(call.secret, FALSE, call.digest_method, call.token_length,
           call.interval_length, IntVal(c), 0).ret

\* C5: for a well-formed candidate, a valid secret, a clock >= 0 and a
\* window W >= 0, valid_totp returns True if some offset w of -W .. W has
\* get_totp(secret, clock + w * interval_length) equal to the candidate's
\* value, and False otherwise.
C5_AcceptsExactlyTheWindow ==
  (Done("valid_totp") /\ ValidSecret(call.secret)
     /\ WellFormed(call.token, call.token_length) /\ call.clock.kind = "int")
  => ret = BoolVal(\E w \in (0 - call.window)..call.window :
                     TotpAt(call.clock.n + (w * call.interval_length))
                       = IntVal(TokenValue(call.token)))

(* -------------------------------- C6 ---------------------------------- *)

\* C6: if valid_totp returns True with window W, it returns True with every
\* larger window, for the same candidate, secret, clock and interval length.
C6_WindowMonotone ==
  (Done("valid_totp") /\ ValidSecret(call.secret) /\ ret = PyTrue)
  => \A W2 \in (call.window + 1)..(MaxWindow + 1) :
       valid_totp(call.token, call.secret, call.digest_method,
                  call.token_length, call.interval_length, call.clock,
                  call.now, W2).ret = PyTrue

(* -------------------------------- C7 ---------------------------------- *)

\* C7: valid_hotp and valid_totp return False for every candidate that holds
\* a non-digit character or is longer than the token length, and compute no
\* HMAC for it.
C7_MalformedReturnsFalse ==
  ((Done("valid_hotp") \/ Done("valid_totp"))
     /\ Malformed(call.token, call.token_length))
  => (ret = PyFalse /\ hmacs = <<>>)

(* -------------------------------- C8 ---------------------------------- *)

C9_CodeRangeAndString ==
  (Done("get_hotp") /\ ~IsRaise(decode_secret(call.secret, call.casefold))
     /\ Len(decode_secret(call.secret, call.casefold).s) > 0)
  => IF call.as_string
     THEN /\ ret.kind = "bytes"
          /\ Len(ret.s) = call.token_length
          /\ \A i \in 1..Len(ret.s) : ret.s[i] \in 48..57
          /\ IntVal(ParseDigits(ret.s))
               = get_hotp(call.secret, call.intervals_no, FALSE, call.casefold,
                          call.digest_method, call.token_length).ret
     ELSE /\ ret.kind = "int"
          /\ ret.n >= 0
          /\ ret.n <= (10 ^ call.token_length) - 1

\* A six-digit code below 100000: the string starts with a fill zero.
C9_Witness ==
  /\ Done("get_hotp") /\ ValidSecret(call.secret)
  /\ call.as_string /\ call.token_length = 6
  /\ ret.kind = "bytes" /\ Len(ret.s) = 6 /\ ret.s[1] = 48

(* -------------------------------- C10 --------------------------------- *)

\* C10: a secret that decodes to the empty byte string is rejected by
\* get_hotp, get_totp, valid_hotp and valid_totp with the invalid-secret
\* error; no code is computed or validated with an empty key.
C10_EmptyKeyRejected ==
  (pc = "done" /\ EmptyKeySecret(call.secret))
  => (IsDecodeError(ret) /\ hmacs = <<>>)

(* -------------------------------- C11 --------------------------------- *)

\* C11: for every digest method, get_hotp takes the truncation offset from
\* the low 4 bits of the last byte of the HMAC digest (index len(digest)-1),
\* reads the 4 bytes at that offset as a big-endian unsigned 32-bit integer,
\* clears its top bit and reduces it mod 10^token_length.
C11_OffsetFromLastByte ==
  (Done("get_hotp") /\ ~call.as_string
     /\ ~IsRaise(decode_secret(call.secret, call.casefold))
     /\ Len(decode_secret(call.secret, call.casefold).s) > 0)
  => LET d == hmac_digest(decode_secret(call.secret, call.casefold).s,
                          pack_Q(call.intervals_no).s, call.digest_method)
         o == d[Len(d)] % 16
     IN ret = IntVal(token_base_at(d, o) % (10 ^ call.token_length))

(* -------------------------------- C12 --------------------------------- *)

\* C12: when the caller replaces last by the returned counter after every
\* successful valid_hotp and leaves it after every not-found, each returned
\* counter is above the last in force at that call and the accepted counters
\* are strictly increasing: none is accepted twice, none at or below an
\* earlier accepted one is accepted later.
C12_AcceptedStrictlyIncreasing ==
  /\ \A j, k \in 1..Len(caller.accepted) :
       j < k => caller.accepted[j] < caller.accepted[k]
  /\ (pc = "idle" /\ Len(caller.accepted) >= 1)
       => caller.last = caller.accepted[Len(caller.accepted)]
  /\ (Done("valid_hotp") /\ ret.kind = "int")
       => /\ call.last = caller.last
          /\ ret.n > call.last
          /\ \A k \in 1..Len(caller.accepted) : caller.accepted[k] < ret.n

\* Two counters were accepted and one validation in between or after was
\* refused.
C12_Witness ==
  /\ pc = "idle"
  /\ Len(caller.accepted) = 2
  /\ caller.calls = 3

(* -------------------------------- C13 --------------------------------- *)

\* The counters a, a+1, .. b in order.
CountersFromTo(a, b) == [k \in 1..(b - a + 1) |-> a + k - 1]

\* C13: valid_hotp computes at most trials codes and valid_totp at most
\* 2*window+1; each stops at the first match (valid_hotp returning i has
\* computed exactly the codes of last+1 .. i); valid_hotp's not-found for a
\* well-formed candidate comes after exactly trials computations.
C13_BoundedScan ==
  /\ Done("valid_hotp")
       => /\ Len(hmacs) <= call.trials
          /\ ret.kind = "int" => hmacs = CountersFromTo(call.last + 1, ret.n)
          /\ (ret = PyFalse /\ WellFormed(call.token, call.token_length))
               => Len(hmacs) = call.trials
  /\ Done("valid_totp")
       => /\ Len(hmacs) <= (2 * call.window) + 1
          /\ ret = PyTrue
               => /\ Len(hmacs) >= 1
                  /\ CodeAt(hmacs[Len(hmacs)]) = IntVal(TokenValue(call.token))
                  /\ \A k \in 1..(Len(hmacs) - 1) :
                       CodeAt(hmacs[k]) # IntVal(TokenValue(call.token))

\* valid_hotp matches inside the range, after a miss and before the last
\* counter: nothing beyond the match was computed.
C13_Witness ==
  /\ Done("valid_hotp") /\ ValidSecret(call.secret)
  /\ ret.kind = "int"
  /\ ret.n > call.last + 1
  /\ ret.n < call.last + call.trials
  /\ hmacs = CountersFromTo(call.last + 1, ret.n)

(* -------------------------------- C14 --------------------------------- *)

\* C14: when a counter of last+1 .. last+trials matches a well-formed
\* candidate, the value valid_hotp returns is not equal to False and is
\* truthy, for every last >= -1 and trials >= 1.
C14_AcceptedIsNotFalse ==
  (Done("valid_hotp") /\ ValidSecret(call.secret)
     /\ WellFormed(call.token, call.token_length)
     /\ call.last >= 0 - 1 /\ call.trials >= 1 /\ Matching # {})
  => (~PyEq(ret, PyFalse) /\ Truthy(ret))

====
